---- MODULE Spec2Model ----
(***************************************************************************)
(* GitShepherd backend, POST /api/repo/fetch (backend/src/routes/repo.js). *)
(* The handler parses the repository reference, creates a session          *)
(* directory under the workspace root, downloads the zipball, extracts it  *)
(* and answers with the first entry of the session directory.              *)
(*                                                                         *)
(* Strings are TLA+ strings; JavaScript's String.replace, String.split,    *)
(* path.join and path.basename are computed character by character.        *)
(* Every await of the handler is a scheduling point: one action models the *)
(* code that runs between two awaits.                                      *)
(***************************************************************************)
EXTENDS Naturals, Sequences, FiniteSets, TLC

(* ------------------------------ bounds -------------------------------- *)

\* Number of POST /fetch requests in flight.
NumReq == 2
\* Largest value of the millisecond clock read by Date.now().
MaxTime == 2
\* Longest text after the scheme-and-host prefix of a reference string.
MaxTail == 5

Reqs == 1..NumReq

(* ------------------------- JavaScript strings -------------------------- *)

CharAt(s, i) == SubSeq(s, i, i)

\* String.prototype.indexOf: the least position of pat in s at or after i,
\* 0 when there is none.
RECURSIVE IndexFrom(_, _, _)
IndexFrom(s, pat, i) ==
    IF i + Len(pat) - 1 > Len(s) THEN 0
    ELSE IF SubSeq(s, i, i + Len(pat) - 1) = pat THEN i
    ELSE IndexFrom(s, pat, i + 1)

IndexOf(s, pat) == IndexFrom(s, pat, 1)

\* String.prototype.replace with a string pattern: the first occurrence only.
Replace(s, pat, by) ==
    LET i == IndexOf(s, pat)
    IN IF i = 0 THEN s
       ELSE SubSeq(s, 1, i - 1) \o by \o SubSeq(s, i + Len(pat), Len(s))

\* String.prototype.split with a non-empty separator.
RECURSIVE Split(_, _)
Split(s, sep) ==
    LET i == IndexOf(s, sep)
    IN IF i = 0 THEN <<s>>
       ELSE <<SubSeq(s, 1, i - 1)>> \o Split(SubSeq(s, i + Len(sep), Len(s)), sep)

RECURSIVE JoinWith(_, _)
JoinWith(segs, sep) ==
    IF segs = <<>> THEN ""
    ELSE IF Len(segs) = 1 THEN segs[1]
    ELSE segs[1] \o sep \o JoinWith(Tail(segs), sep)

(* ------------------------------ node path ------------------------------ *)

\* path.posix.normalize on the segments of an absolute path.
RECURSIVE ResolveSegs(_, _)
ResolveSegs(segs, acc) ==
    IF segs = <<>> THEN acc
    ELSE LET h == Head(segs)
         IN IF h = "" \/ h = "." THEN ResolveSegs(Tail(segs), acc)
            ELSE IF h = ".."
                 THEN ResolveSegs(Tail(segs),
                                  IF acc = <<>> THEN acc ELSE SubSeq(acc, 1, Len(acc) - 1))
            ELSE ResolveSegs(Tail(segs), Append(acc, h))

\* path.join(a, b) for an absolute a: concatenate with "/" and normalize; a
\* trailing slash of the joined text is kept.
PathJoin(a, b) ==
    LET joined == a \o "/" \o b
        segs == ResolveSegs(Split(joined, "/"), <<>>)
        trailing == CharAt(joined, Len(joined)) = "/"
    IN IF segs = <<>> THEN "/"
       ELSE "/" \o JoinWith(segs, "/") \o (IF trailing THEN "/" ELSE "")

StripTrailingSlash(p) ==
    IF Len(p) > 1 /\ CharAt(p, Len(p)) = "/" THEN SubSeq(p, 1, Len(p) - 1) ELSE p

\* path.basename(p): the last portion of p.
PathBasename(p) ==
    LET segs == Split(StripTrailingSlash(p), "/")
    IN segs[Len(segs)]

\* path.dirname(p) of an absolute path.
PathDirname(p) ==
    LET q == StripTrailingSlash(p)
        segs == Split(q, "/")
        d == JoinWith(SubSeq(segs, 1, Len(segs) - 1), "/")
    IN IF d = "" THEN "/" ELSE d

\* WORKSPACE_DIR = path.join(__dirname, '../../workspace'), with the routes
\* directory deployed at /backend/src/routes.
DirName == "/backend/src/routes"
WORKSPACE_DIR == PathJoin(DirName, "../../workspace")

(* --------------------------- reference parser -------------------------- *)

GITHUB_PREFIX == "https://github.com/"

\* const parts = repoUrl.replace('https://github.com/', '').split('/');
PartsOf(repoUrl) == Split(Replace(repoUrl, GITHUB_PREFIX, ""), "/")

\* if (parts.length < 2) throw new Error('Invalid GitHub URL');
ValidParts(parts) == ~(Len(parts) < 2)

\* const owner = parts[0];
OwnerOf(parts) == parts[1]

\* A variant that strips the fragment and leaves the query in place.
RepoOfKeepQuery(parts) == Split(parts[2], "#")[1]

\* const repo = parts[1].split('#')[0].split('?')[0];
RepoOf(parts) == Split(Split(parts[2], "#")[1], "?")[1]

(* ----------------------------- file system ----------------------------- *)

\* The directories on the path to p, p included.
AncestorsOf(p) ==
    LET segs == Split(StripTrailingSlash(p), "/")
    IN {JoinWith(SubSeq(segs, 1, k), "/") : k \in 2..Len(segs)}

PathsOf(entries) == {e.path : e \in entries}

\* fs.ensureDir(p): p and its missing ancestors are created; directories
\* that exist are left as they are.
EnsureDir(ds, p) == ds \cup AncestorsOf(p)

\* fs.readdir(dir): the names of the immediate children of dir.
ReadDir(ds, fl, dir) ==
    {PathBasename(q) : q \in {x \in ds \cup PathsOf(fl) : PathDirname(x) = dir /\ x # dir}}

(* ------------------------------- upstream ------------------------------ *)

ZipEntry(name, isDir) == [entryName |-> name, isDirectory |-> isDir]

\* Archives the hosting service may serve: one wrapper folder (the usual
\* zipball), no entry at all, two top-level folders, a single top-level file.
ZipSingleRoot == {ZipEntry("X/", TRUE), ZipEntry("X/f", FALSE)}
ZipEmpty == {}
ZipTwoRoots == {ZipEntry("X/", TRUE), ZipEntry("Y/", TRUE)}
ZipRootFile == {ZipEntry("f", FALSE)}
Archives == {ZipSingleRoot, ZipEmpty, ZipTwoRoots, ZipRootFile}

\* What the GET may come back with: 200 with an archive, 200 with bytes that
\* are no zip file, or 404 (repository or branch main not found).
UpstreamReplies ==
    {[status |-> 200, valid |-> TRUE, zip |-> z] : z \in Archives}
    \cup {[status |-> 200, valid |-> FALSE, zip |-> {}],
          [status |-> 404, valid |-> FALSE, zip |-> {}]}

\* const tarballUrl = `https://api.github.com/repos/${owner}/${repo}/zipball/main`;
TarballUrl(o, rp) == "https://api.github.com/repos/" \o o \o "/" \o rp \o "/zipball/main"

\* zip.extractAllTo(sessionDir, true): every entry is written under the
\* target, directories created as needed, existing files overwritten.
ExtractDirs(ds, zip, target) ==
    ds \cup UNION {AncestorsOf(
                      IF e.isDirectory
                      THEN StripTrailingSlash(PathJoin(target, e.entryName))
                      ELSE PathDirname(PathJoin(target, e.entryName))) : e \in zip}

ExtractFiles(fl, zip, target, r) ==
    LET written == {PathJoin(target, e.entryName) : e \in {x \in zip : ~x.isDirectory}}
    IN {f \in fl : f.path \notin written} \cup {[path |-> q, by |-> r] : q \in written}

(* -------------------------------- state -------------------------------- *)

VARIABLES
    now,        \* the millisecond clock behind Date.now()
    pc,         \* per request: where its handler is
    body,       \* per request: req.body
    owner,      \* per request: const owner
    repo,       \* per request: const repo
    ts,         \* per request: the Date.now() value used for sessionDir
    sessionDir, \* per request: const sessionDir
    folders,    \* per request: the names fs.readdir returned
    responses,  \* per request: the responses sent on res, in order
    upstream,   \* per request: the HTTP status the GET came back with, 0 before
    dirs,       \* directories on disk
    files,      \* files on disk, each with the request that last wrote it
    gets        \* outbound HTTP GETs issued by axios

\* The browser page (frontend/script.js), one agent flow.
VARIABLES
    flowPc,        \* where the click handler and executeAgentFlow are
    flowIn,        \* the values of the page's inputs
    fetchResponse, \* the status of fetchResponse, 0 before it arrives
    logs,          \* the entries appended to the log panel, in order
    opened,        \* the URLs given to new EventSource, in order
    esState        \* the event source: "none", "open" or "closed"

front == <<flowPc, flowIn, fetchResponse, logs, opened, esState>>

vars == <<now, pc, body, owner, repo, ts, sessionDir, folders, upstream, responses, dirs, files, gets,
          flowPc, flowIn, fetchResponse, logs, opened, esState>>

\* Request bodies: repoUrl present or missing.
Body(url) == [hasRepoUrl |-> TRUE, repoUrl |-> url]
NoRepoUrl == [hasRepoUrl |-> FALSE, repoUrl |-> ""]

\* if (!repoUrl): undefined and the empty string are falsy.
Falsy(b) == ~b.hasRepoUrl \/ b.repoUrl = ""

\* `${Date.now()}-${repo}`
SessionName(t, rp) == ToString(t) \o "-" \o rp

\* res.status(400).json({ error: 'GitHub Repo URL is required' })
MissingUrlResponse == [status |-> 400, error |-> "GitHub Repo URL is required"]

\* catch (error): res.status(500).json({ error: 'Failed to fetch repository: ' + error.message })
CatchResponse(message) == [status |-> 500, error |-> "Failed to fetch repository: " \o message]

\* A variant that returns the session directory itself as the handle.
SuccessResponseDirAsId(o, rp, mainFolder, sdir) ==
    [status |-> 200, message |-> "Repo fetched successfully",
     owner |-> o, repo |-> rp, path |-> mainFolder, sessionId |-> sdir]

\* res.json({ message, owner, repo, path: mainFolder, sessionId: path.basename(sessionDir) })
SuccessResponse(o, rp, mainFolder, sdir) ==
    [status |-> 200, message |-> "Repo fetched successfully",
     owner |-> o, repo |-> rp, path |-> mainFolder, sessionId |-> PathBasename(sdir)]

\* Messages of the errors thrown by the code and its libraries.
InvalidUrlMessage == "Invalid GitHub URL"
AxiosStatusMessage(status) == "Request failed with status code " \o ToString(status)
BadZipMessage == "Invalid or unsupported zip format. No END header found"
PathArgMessage == "The \"path\" argument must be of type string. Received undefined"

Send(r, resp) == responses' = [responses EXCEPT ![r] = Append(@, resp)]

\* Disk state before the server runs: the deployed source tree.
DeployedDirs == AncestorsOf(DirName)

InitRest ==
    /\ now = 1
    /\ owner = [r \in Reqs |-> ""]
    /\ repo = [r \in Reqs |-> ""]
    /\ ts = [r \in Reqs |-> 0]
    /\ sessionDir = [r \in Reqs |-> ""]
    /\ folders = [r \in Reqs |-> {}]
    /\ upstream = [r \in Reqs |-> 0]
    /\ responses = [r \in Reqs |-> <<>>]
    /\ dirs = DeployedDirs
    /\ files = {}
    /\ gets = {}

\* No page is open: the requests come from other clients.
NoFlow ==
    /\ flowPc = "none"
    /\ flowIn = [repoUrl |-> "", task |-> "", mode |-> "", thinking |-> ""]
    /\ fetchResponse = 0
    /\ logs = <<>>
    /\ opened = <<>>
    /\ esState = "none"

\* Reference strings sent while requests run concurrently.
FetchUrls == {"https://github.com/o/r#b", "https://github.com/o"}
FetchBodies == {Body(u) : u \in FetchUrls} \cup {NoRepoUrl}

Init ==
    /\ pc = [r \in Reqs |-> "start"]
    /\ body \in [Reqs -> FetchBodies]
    /\ InitRest
    /\ NoFlow

(* ------------------------------- handler ------------------------------- *)

\* Lines 18-29 and 56-59: inside the try, the reference is parsed; a
\* reference with fewer than two parts throws into the catch.
ParseReference(r) ==
    LET parts == PartsOf(body[r].repoUrl)
    IN IF ~ValidParts(parts)
       THEN /\ Send(r, CatchResponse(InvalidUrlMessage))
            /\ pc' = [pc EXCEPT ![r] = "done"]
            /\ UNCHANGED <<owner, repo>>
       ELSE /\ owner' = [owner EXCEPT ![r] = OwnerOf(parts)]
            /\ repo' = [repo EXCEPT ![r] = RepoOf(parts)]
            /\ pc' = [pc EXCEPT ![r] = "ensureWorkspace"]
            /\ UNCHANGED responses

\* Lines 12-16: a missing repoUrl is answered with 400 and the handler returns.
Validate(r) ==
    IF Falsy(body[r])
    THEN /\ Send(r, MissingUrlResponse)
         /\ pc' = [pc EXCEPT ![r] = "done"]
         /\ UNCHANGED <<owner, repo>>
    ELSE ParseReference(r)

\* A variant without the return after the 400: the handler goes on into the
\* try, where the falsy repoUrl throws and the catch answers a second time.
UndefinedReplaceMessage == "Cannot read properties of undefined (reading 'replace')"
ReceiveNoReturn(r) ==
    /\ pc[r] = "start"
    /\ IF Falsy(body[r])
       THEN /\ responses' = [responses EXCEPT ![r] =
                   @ \o <<MissingUrlResponse,
                          CatchResponse(IF body[r].hasRepoUrl THEN InvalidUrlMessage
                                        ELSE UndefinedReplaceMessage)>>]
            /\ pc' = [pc EXCEPT ![r] = "done"]
            /\ UNCHANGED <<owner, repo>>
       ELSE ParseReference(r)
    /\ UNCHANGED <<now, body, ts, sessionDir, folders, upstream, dirs, files, gets>>
    /\ UNCHANGED front

\* A variant that ensures the workspace root before it validates.
ReceiveMkdirFirst(r) ==
    /\ pc[r] = "start"
    /\ dirs' = EnsureDir(dirs, WORKSPACE_DIR)
    /\ Validate(r)
    /\ UNCHANGED <<now, body, ts, sessionDir, folders, upstream, files, gets>>
    /\ UNCHANGED front

\* Lines 12-29: validation and parsing, up to the first await.
Receive(r) ==
    /\ pc[r] = "start"
    /\ Validate(r)
    /\ UNCHANGED <<now, body, ts, sessionDir, folders, upstream, dirs, files, gets>>
    /\ UNCHANGED front

\* Lines 29-31: ensureDir(WORKSPACE_DIR) has completed; the session directory
\* is named from the clock and the repository name, and its creation starts.
EnsureWorkspace(r) ==
    /\ pc[r] = "ensureWorkspace"
    /\ dirs' = EnsureDir(dirs, WORKSPACE_DIR)
    /\ ts' = [ts EXCEPT ![r] = now]
    /\ sessionDir' = [sessionDir EXCEPT ![r] = PathJoin(WORKSPACE_DIR, SessionName(now, repo[r]))]
    /\ pc' = [pc EXCEPT ![r] = "ensureSession"]
    /\ UNCHANGED <<now, body, owner, repo, folders, upstream, responses, files, gets>>
    /\ UNCHANGED front

\* Lines 31-39: ensureDir(sessionDir) has completed; the GET is issued.
EnsureSession(r) ==
    /\ pc[r] = "ensureSession"
    /\ dirs' = EnsureDir(dirs, sessionDir[r])
    /\ gets' = gets \cup {[by |-> r, url |-> TarballUrl(owner[r], repo[r])]}
    /\ pc' = [pc EXCEPT ![r] = "download"]
    /\ UNCHANGED <<now, body, owner, repo, ts, sessionDir, folders, upstream, responses, files>>
    /\ UNCHANGED front

\* Lines 35-45: the GET settles. A non-2xx reply rejects and a body that is
\* no zip file makes new AdmZip throw: both reach the catch. Otherwise the
\* archive is extracted into sessionDir and fs.readdir is started.
Download(r) ==
    /\ pc[r] = "download"
    /\ \E reply \in UpstreamReplies :
         /\ upstream' = [upstream EXCEPT ![r] = reply.status]
         /\ IF reply.status # 200
            THEN /\ Send(r, CatchResponse(AxiosStatusMessage(reply.status)))
                 /\ pc' = [pc EXCEPT ![r] = "done"]
                 /\ UNCHANGED <<dirs, files>>
            ELSE IF ~reply.valid
            THEN /\ Send(r, CatchResponse(BadZipMessage))
                 /\ pc' = [pc EXCEPT ![r] = "done"]
                 /\ UNCHANGED <<dirs, files>>
            ELSE /\ dirs' = ExtractDirs(dirs, reply.zip, sessionDir[r])
                 /\ files' = ExtractFiles(files, reply.zip, sessionDir[r], r)
                 /\ pc' = [pc EXCEPT ![r] = "readdir"]
                 /\ UNCHANGED responses
    /\ UNCHANGED <<now, body, owner, repo, ts, sessionDir, folders, gets>>
    /\ UNCHANGED front

\* Line 45: fs.readdir(sessionDir) reads the directory.
ListSession(r) ==
    /\ pc[r] = "readdir"
    /\ folders' = [folders EXCEPT ![r] = ReadDir(dirs, files, sessionDir[r])]
    /\ pc' = [pc EXCEPT ![r] = "respond"]
    /\ UNCHANGED <<now, body, owner, repo, ts, sessionDir, upstream, responses, dirs, files, gets>>
    /\ UNCHANGED front

\* const mainFolder = path.join(sessionDir, folders[0]): readdir promises no
\* order, so folders[0] is any of the names; with no name it is undefined
\* and path.join throws a TypeError.
FirstFolder(names) == names

\* Lines 46-59: the response.
Respond(r) ==
    /\ pc[r] = "respond"
    /\ IF folders[r] = {}
       THEN Send(r, CatchResponse(PathArgMessage))
       ELSE \E first \in FirstFolder(folders[r]) :
              Send(r, SuccessResponse(owner[r], repo[r],
                                      PathJoin(sessionDir[r], first), sessionDir[r]))
    /\ pc' = [pc EXCEPT ![r] = "done"]
    /\ UNCHANGED <<now, body, owner, repo, ts, sessionDir, folders, upstream, dirs, files, gets>>
    /\ UNCHANGED front

\* The millisecond clock advances.
Tick ==
    /\ now < MaxTime
    /\ now' = now + 1
    /\ UNCHANGED <<pc, body, owner, repo, ts, sessionDir, folders, upstream, responses, dirs, files, gets>>
    /\ UNCHANGED front

Next ==
    \/ Tick
    \/ \E r \in Reqs : Receive(r)
    \/ \E r \in Reqs : EnsureWorkspace(r)
    \/ \E r \in Reqs : EnsureSession(r)
    \/ \E r \in Reqs : Download(r)
    \/ \E r \in Reqs : ListSession(r)
    \/ \E r \in Reqs : Respond(r)

Spec == Init /\ [][Next]_vars

(* ---------------------- the parser on its own ------------------------- *)

\* Reference strings: a scheme-and-host prefix (github.com, another host, or
\* none) followed by every text of at most MaxTail characters over the
\* characters that matter to the parser.
TailChars == {"o", "r", "/", "#", "?"}

RECURSIVE TextsUpTo(_)
TextsUpTo(n) ==
    IF n = 0 THEN {""}
    ELSE LET shorter == TextsUpTo(n - 1)
         IN shorter \cup {t \o c : t \in shorter, c \in TailChars}

Hosts == {"github.com", "gitlab.com"}
HostPrefix(host) == "https://" \o host \o "/"

ParseUrls == {pre \o t : pre \in {HostPrefix(h) : h \in Hosts} \cup {""}, t \in TextsUpTo(MaxTail)}
ParseBodies == {Body(u) : u \in ParseUrls} \cup {NoRepoUrl}

\* One request, any reference string; the other requests never arrive.
InitParse ==
    /\ \E b \in ParseBodies :
         body = [r \in Reqs |-> IF r = 1 THEN b ELSE NoRepoUrl]
    /\ pc = [r \in Reqs |-> IF r = 1 THEN "start" ELSE "idle"]
    /\ InitRest
    /\ NoFlow

NextParse == \E r \in Reqs : Receive(r)

ParseSpec == InitParse /\ [][NextParse]_vars

(* ------------------------- the page's agent flow ----------------------- *)

\* Most log entries the panel holds before further stream events are left out.
MaxLogs == 3

\* The request the page's fetch becomes on the server.
FlowReq == 1

\* What the user may have typed and chosen before pressing start.
Tasks == {"", "a b"}
Modes == {"refactor", "review"}
ThinkingValues == {"", "3"}
FlowInputs ==
    [repoUrl : FetchUrls \cup {""}, task : Tasks, mode : Modes, thinking : ThinkingValues]

\* addLog(text, type): entry.className and entry.textContent, the time of
\* day read from the clock.
LogEntry(type, time, text) ==
    [className |-> "log-entry " \o type,
     textContent |-> "[" \o ToString(time) \o "] " \o text]

AddLog(text, type) == logs' = Append(logs, LogEntry(type, now, text))

\* A property read from the parsed response body inside a template literal:
\* a missing property reads as undefined.
Field(data, name) == IF name \in DOMAIN data THEN data[name] ELSE "undefined"

\* new Error(fetchData.detail).message: empty when detail is undefined.
DetailMessage(data) == IF "detail" \in DOMAIN data THEN data.detail ELSE ""

\* encodeURIComponent, on letters, digits and the reserved characters used here.
EncodeChar(c) ==
    IF c = " " THEN "%20"
    ELSE IF c = "/" THEN "%2F"
    ELSE IF c = "#" THEN "%23"
    ELSE IF c = "?" THEN "%3F"
    ELSE IF c = "&" THEN "%26"
    ELSE IF c = "=" THEN "%3D"
    ELSE c

RECURSIVE EncodeURIComponent(_)
EncodeURIComponent(t) ==
    IF t = "" THEN "" ELSE EncodeChar(CharAt(t, 1)) \o EncodeURIComponent(SubSeq(t, 2, Len(t)))

\* document.getElementById('thinking-level')?.value || 2
ThinkingLevel(value) == IF value = "" THEN "2" ELSE value

\* const prIdParam = fetchData.prId ? `&prId=${fetchData.prId}` : '';
PrIdParam(data) ==
    IF "prId" \in DOMAIN data /\ data.prId # "" THEN "&prId=" \o data.prId ELSE ""

STREAM_BASE == "http://localhost:3001/api/agent/stream/"

\* const streamUrl = `http://localhost:3001/api/agent/stream/${fetchData.sessionId}?task=...`;
StreamUrl(data, in) ==
    STREAM_BASE \o Field(data, "sessionId")
        \o "?task=" \o EncodeURIComponent(in.task)
        \o "&mode=" \o in.mode
        \o "&thinkingLevel=" \o ThinkingLevel(in.thinking)
        \o PrIdParam(data)

\* A variant that takes every response for a success.
ResponseOkAlways(status) == TRUE

\* fetchResponse.ok
ResponseOk(status) == status \in 200..299

\* The events the stream may deliver: a progress line, or completion.
StreamEvents ==
    {[log |-> "Planning", type |-> "", status |-> ""],
     [log |-> "", type |-> "", status |-> "completed"]}

InitFlow ==
    /\ pc = [r \in Reqs |-> "idle"]
    /\ body = [r \in Reqs |-> NoRepoUrl]
    /\ InitRest
    /\ flowPc = "ready"
    /\ flowIn \in FlowInputs
    /\ fetchResponse = 0
    /\ logs = <<>>
    /\ opened = <<>>
    /\ esState = "none"

\* script.js lines 10-43: the click handler alerts and returns when an input
\* is empty; otherwise executeAgentFlow logs and posts the fetch request.
Click ==
    /\ flowPc = "ready"
    /\ IF flowIn.repoUrl = "" \/ flowIn.task = ""
       THEN /\ flowPc' = "alerted"
            /\ UNCHANGED <<pc, body, logs>>
       ELSE /\ AddLog("Connecting to backend server...", "system")
            /\ body' = [body EXCEPT ![FlowReq] = Body(flowIn.repoUrl)]
            /\ pc' = [pc EXCEPT ![FlowReq] = "start"]
            /\ flowPc' = "awaitFetch"
    /\ UNCHANGED <<now, owner, repo, ts, sessionDir, folders, upstream, responses, dirs, files, gets>>
    /\ UNCHANGED <<flowIn, fetchResponse, opened, esState>>

\* script.js lines 39-44: the server's response arrives and fetch resolves.
FetchResolved ==
    /\ flowPc = "awaitFetch"
    /\ pc[FlowReq] = "done"
    /\ Len(responses[FlowReq]) >= 1
    /\ fetchResponse' = responses[FlowReq][1].status
    /\ flowPc' = "awaitJson"
    /\ UNCHANGED <<now, pc, body, owner, repo, ts, sessionDir, folders, upstream, responses, dirs, files, gets>>
    /\ UNCHANGED <<flowIn, logs, opened, esState>>

\* script.js lines 39 and 74-76: the server cannot be reached, fetch rejects
\* and the catch logs the error.
FetchRejected ==
    /\ flowPc = "awaitFetch"
    /\ AddLog("Error: " \o "Failed to fetch", "system")
    /\ flowPc' = "done"
    /\ UNCHANGED <<now, pc, body, owner, repo, ts, sessionDir, folders, upstream, responses, dirs, files, gets>>
    /\ UNCHANGED <<flowIn, fetchResponse, opened, esState>>

\* script.js lines 44-53 and 74-76: the body is parsed; a response that is
\* not ok throws into the catch, which logs; otherwise the workspace is
\* logged and the event stream is opened with the sessionId of the body.
BodyParsed ==
    /\ flowPc = "awaitJson"
    /\ LET fetchData == responses[FlowReq][1]
       IN IF ~ResponseOk(fetchResponse)
          THEN /\ AddLog("Error: " \o DetailMessage(fetchData), "system")
               /\ UNCHANGED <<opened, esState>>
          ELSE /\ AddLog("Workspace Ready: " \o Field(fetchData, "repo"), "success")
               /\ opened' = Append(opened, StreamUrl(fetchData, flowIn))
               /\ esState' = "open"
    /\ flowPc' = "done"
    /\ UNCHANGED <<now, pc, body, owner, repo, ts, sessionDir, folders, upstream, responses, dirs, files, gets>>
    /\ UNCHANGED <<flowIn, fetchResponse>>

\* script.js line 64: the text of the closing entry begins with the chequered
\* flag U+1F3C1 and a space.  A string of this language holds ASCII only, so
\* the sign is carried as its two UTF-16 code units in JavaScript's escape
\* notation, twelve ASCII characters standing for the one sign.
FinishedText == "\\ud83c\\udfc1 Agent process finished."

\* script.js lines 55-67: eventSource.onmessage logs the event's line and, on
\* completion, closes the stream and logs the end (the result view that
\* follows is outside this model).
StreamMessage ==
    /\ esState = "open"
    /\ \E data \in StreamEvents :
         IF data.status = "completed"
         THEN /\ esState' = "closed"
              /\ AddLog(FinishedText, "success")
         ELSE /\ Len(logs) < MaxLogs
              /\ AddLog(data.log, IF data.type = "" THEN "agent" ELSE data.type)
              /\ UNCHANGED esState
    /\ UNCHANGED <<now, pc, body, owner, repo, ts, sessionDir, folders, upstream, responses, dirs, files, gets>>
    /\ UNCHANGED <<flowPc, flowIn, fetchResponse, opened>>

\* script.js lines 69-72: eventSource.onerror closes the stream.
StreamError ==
    /\ esState = "open"
    /\ esState' = "closed"
    /\ UNCHANGED <<now, pc, body, owner, repo, ts, sessionDir, folders, upstream, responses, dirs, files, gets>>
    /\ UNCHANGED <<flowPc, flowIn, fetchResponse, logs, opened>>

NextFlow ==
    \/ Click
    \/ FetchResolved
    \/ FetchRejected
    \/ BodyParsed
    \/ StreamMessage
    \/ StreamError
    \/ Next

FlowSpec == InitFlow /\ [][NextFlow]_vars

(* ------------------------------ properties ---------------------------- *)

Responded(r) == Len(responses[r]) >= 1
Succeeded(r) == Responded(r) /\ responses[r][1].status \in 200..299

SuccessFields == {"owner", "repo", "path", "sessionId"}
SuccessShape(resp) ==
    /\ resp.status \in 200..299
    /\ SuccessFields \subseteq DOMAIN resp
    /\ "error" \notin DOMAIN resp
FailureShape(resp) ==
    /\ resp.status \notin 200..299
    /\ "error" \in DOMAIN resp
    /\ resp.error # ""
    /\ SuccessFields \cap DOMAIN resp = {}

FailedOnce(r) ==
    /\ pc[r] = "done"
    /\ Len(responses[r]) = 1
    /\ FailureShape(responses[r][1])

\* p lies strictly inside directory dir.
Inside(p, dir) == Len(p) > Len(dir) + 1 /\ SubSeq(p, 1, Len(dir) + 1) = dir \o "/"

\* A path segment: not empty, no separator.
IsSegment(s) == s # "" /\ IndexOf(s, "/") = 0

\* An owner or repository name of a reference string.
IsName(s) == s # "" /\ \A k \in 1..Len(s) : CharAt(s, k) \notin {"/", "#", "?"}
\* Nothing, a fragment or a query.
IsSuffix(s) == s = "" \/ CharAt(s, 1) \in {"#", "?"}

\* The {owner, repo} readings of url as https://<host>/<owner>/<repo>[#fragment|?query].
RefDecomps(url, host) ==
    LET pre == HostPrefix(host)
    IN IF Len(url) < Len(pre) \/ SubSeq(url, 1, Len(pre)) # pre THEN {}
       ELSE LET t == SubSeq(url, Len(pre) + 1, Len(url))
                cuts == {c \in (1..Len(t)) \X (1..(Len(t) + 1)) :
                            /\ c[1] < c[2]
                            /\ CharAt(t, c[1]) = "/"
                            /\ IsName(SubSeq(t, 1, c[1] - 1))
                            /\ IsName(SubSeq(t, c[1] + 1, c[2] - 1))
                            /\ IsSuffix(SubSeq(t, c[2], Len(t)))}
            IN {[owner |-> SubSeq(t, 1, c[1] - 1), repo |-> SubSeq(t, c[1] + 1, c[2] - 1)] :
                    c \in cuts}

\* url is https://<host>/<owner> and nothing more: no second path segment.
LacksRepo(url) ==
    \E host \in Hosts :
        LET pre == HostPrefix(host)
        IN /\ Len(url) > Len(pre)
           /\ SubSeq(url, 1, Len(pre)) = pre
           /\ IsName(SubSeq(url, Len(pre) + 1, Len(url)))

\* The request fails validation: repoUrl missing, or fewer than two path
\* segments after the prefix is removed.
FailsValidation(b) == Falsy(b) \/ Len(PartsOf(b.repoUrl)) < 2

Parsed(r) == pc[r] \notin {"idle", "start"}

\* C1: two fetches of the same owner/repo that both succeed carry different
\* sessionId values, name different session directories, and no file inside
\* the session directory of one was written by the other.
C1_DistinctSessions ==
    \A r1, r2 \in Reqs :
        (r1 # r2 /\ Succeeded(r1) /\ Succeeded(r2)
            /\ owner[r1] = owner[r2] /\ repo[r1] = repo[r2])
        => /\ responses[r1][1].sessionId # responses[r2][1].sessionId
           /\ sessionDir[r1] # sessionDir[r2]
           /\ \A f \in files : Inside(f.path, sessionDir[r1]) => f.by = r1

\* C2: a fetch whose download came back 404 ends in one failure response
\* whose message carries the status 404, and its session directory is not
\* on disk afterwards.
C2_NotFoundLeavesNothing ==
    \A r \in Reqs :
        (pc[r] = "done" /\ upstream[r] = 404)
        => /\ FailedOnce(r)
           /\ IndexOf(responses[r][1].error, "404") # 0
           /\ sessionDir[r] \notin dirs

\* C3: a fetch succeeds only if the listing of its session directory has
\* exactly one name and that name is a directory, which is the returned
\* path; with no name or more than one the fetch ends in a failure response.
C3_SingleRootOnly ==
    \A r \in Reqs :
        /\ Succeeded(r) =>
              /\ Cardinality(folders[r]) = 1
              /\ \A child \in folders[r] :
                    /\ sessionDir[r] \o "/" \o child \in dirs
                    /\ responses[r][1].path = sessionDir[r] \o "/" \o child
        /\ (pc[r] = "done" /\ Cardinality(folders[r]) # 1) => FailedOnce(r)

\* C5: no request gets two responses, a finished handler has sent exactly
\* one, and every response is either a success carrying owner, repo, path
\* and sessionId or a failure with a non-2xx status and an error message,
\* never a mix.
C5_OneResponseOneShape ==
    \A r \in Reqs :
        /\ Len(responses[r]) <= 1
        /\ (pc[r] = "done") <=> (Len(responses[r]) = 1)
        /\ \A i \in 1..Len(responses[r]) :
              /\ SuccessShape(responses[r][i]) \/ FailureShape(responses[r][i])
              /\ ~(SuccessShape(responses[r][i]) /\ FailureShape(responses[r][i]))

C5_Witness ==
    \E r1, r2 \in Reqs :
        /\ pc[r1] = "done" /\ SuccessShape(responses[r1][1])
        /\ pc[r2] = "done" /\ FailureShape(responses[r2][1])

\* C6 as stated: for every host, a reference https://<host>/<owner>/<repo>
\* with an optional #fragment or ?query parses to that owner and that repo.
C6_AnyHost ==
    \A r \in Reqs :
        (Parsed(r) /\ body[r].hasRepoUrl)
        => \A host \in Hosts : \A d \in RefDecomps(body[r].repoUrl, host) :
              /\ pc[r] = "ensureWorkspace"
              /\ owner[r] = d.owner
              /\ repo[r] = d.repo

\* C6 amended: for the host github.com, a reference
\* https://github.com/<owner>/<repo> with an optional #fragment or ?query
\* parses to that owner and that repo, fragment and query removed.
C6_GitHubHost ==
    \A r \in Reqs :
        (Parsed(r) /\ body[r].hasRepoUrl)
        => \A d \in RefDecomps(body[r].repoUrl, "github.com") :
              /\ pc[r] = "ensureWorkspace"
              /\ owner[r] = d.owner
              /\ repo[r] = d.repo

C6_Witness ==
    \E r \in Reqs :
        /\ Parsed(r)
        /\ body[r].repoUrl = "https://github.com/o/r?o"
        /\ RefDecomps(body[r].repoUrl, "github.com") = {[owner |-> "o", repo |-> "r"]}
        /\ owner[r] = "o"
        /\ repo[r] = "r"

\* C7: a reference https://<host>/<owner> with no second path segment, for
\* any host, fails validation: the request ends in a failure response.
C7_MissingRepoRejected ==
    \A r \in Reqs :
        (Parsed(r) /\ body[r].hasRepoUrl /\ LacksRepo(body[r].repoUrl))
        => FailedOnce(r)

\* C8: whenever a request proceeds past validation, the parsed owner and
\* the parsed repository name are both non-empty.
C8_NonEmptyNames ==
    \A r \in Reqs :
        (Parsed(r) /\ pc[r] # "done") => (owner[r] # "" /\ repo[r] # "")

\* C9: in every success response sessionId is <creation timestamp>-<repo>
\* for the repo of that response, the session directory is the child of the
\* workspace root with that name, and path is a child of the session
\* directory.
C9_SessionLayout ==
    \A r \in Reqs :
        Succeeded(r) =>
            LET resp == responses[r][1]
            IN /\ resp.sessionId = ToString(ts[r]) \o "-" \o resp.repo
               /\ IsSegment(resp.sessionId)
               /\ sessionDir[r] = WORKSPACE_DIR \o "/" \o resp.sessionId
               /\ sessionDir[r] \in dirs
               /\ \E child \in folders[r] :
                     /\ IsSegment(child)
                     /\ resp.path = sessionDir[r] \o "/" \o child
                     /\ resp.path \in dirs \cup PathsOf(files)

C9_Witness ==
    \E r \in Reqs :
        /\ Succeeded(r)
        /\ ts[r] = MaxTime
        /\ responses[r][1].sessionId = ToString(MaxTime) \o "-r"
        /\ responses[r][1].path = WORKSPACE_DIR \o "/" \o ToString(MaxTime) \o "-r/X"

\* C10: every step of a request that fails validation leaves the
\* directories, the files and the outbound GETs as they were, and ends the
\* request with one failure response.
C10_ValidationFrame ==
    [][\A r \in Reqs :
          (FailsValidation(body[r]) /\ pc'[r] # pc[r])
          => /\ dirs' = dirs
             /\ files' = files
             /\ gets' = gets
             /\ pc'[r] = "done"
             /\ Len(responses'[r]) = 1
             /\ FailureShape(responses'[r][1])]_vars

C10_Witness ==
    \E r1, r2 \in Reqs :
        /\ body[r1] = NoRepoUrl /\ FailedOnce(r1)
        /\ ~Falsy(body[r2]) /\ FailsValidation(body[r2]) /\ FailedOnce(r2)
        /\ WORKSPACE_DIR \notin dirs
        /\ gets = {}

\* An entry of the log panel that reports an error.
IsErrorEntry(e) == IndexOf(e.textContent, "] Error: ") # 0

StartsWith(s, pre) == Len(s) >= Len(pre) /\ SubSeq(s, 1, Len(pre)) = pre

\* C11: an event stream is opened only once the fetch request has been
\* answered with success, at most once, and with the sessionId of that
\* response; after a failure response no stream is ever opened, and once the
\* flow has handled the failure the log holds an error entry.
C11_StreamOnlyAfterSuccess ==
    /\ opened # <<>> =>
          /\ Len(opened) = 1
          /\ pc[FlowReq] = "done"
          /\ Succeeded(FlowReq)
          /\ fetchResponse \in 200..299
          /\ StartsWith(opened[1], STREAM_BASE \o responses[FlowReq][1].sessionId \o "?task=")
    /\ esState # "none" => opened # <<>>
    /\ (Responded(FlowReq) /\ FailureShape(responses[FlowReq][1])) =>
          /\ opened = <<>>
          /\ esState = "none"
          /\ flowPc = "done" => \E i \in 1..Len(logs) : IsErrorEntry(logs[i])

C11_Witness ==
    /\ opened = <<STREAM_BASE \o "2-r?task=a%20b&mode=review&thinkingLevel=2">>
    /\ responses[FlowReq][1].sessionId = "2-r"
    /\ esState = "closed"
    /\ Len(logs) = MaxLogs + 1

C11_FailureWitness ==
    /\ Responded(FlowReq)
    /\ FailureShape(responses[FlowReq][1])
    /\ fetchResponse = 500
    /\ flowPc = "done"
    /\ logs[Len(logs)].textContent = "[1] Error: "
    /\ opened = <<>>

====
